---- MODULE Spec2Model ----
(***************************************************************************)
(* Model of week1/week1_exercise/managers.py: the two manager classes     *)
(* OpenAIManager and OllamaManager.  One behaviour constructs one manager  *)
(* object and then runs display_response on it up to MaxCalls times.       *)
(*                                                                         *)
(* Python str values are sequences of one-character strings, so that       *)
(* concatenation, rstrip and prefix tests are computed and not assumed.    *)
(* The servers' answers and the exceptions the libraries raise are the     *)
(* inputs of the steps, drawn from the finite sets below.                  *)
(***************************************************************************)
EXTENDS Integers, Sequences, FiniteSets, TLC

\* Number of display_response calls made on the constructed object.
MaxCalls == 3

VARIABLES
    environ,    \* os.environ's OPENAI_API_KEY: None when unset, else its value
    cls,        \* class of the object: "-" before construction
    args,       \* the arguments the constructor was called with
    self,       \* the object's attributes
    pc,         \* position: "new", "ctor_raised", "ready", "create", "probe", "generate", "display"
    calls,      \* display_response calls started so far
    question,   \* argument of the running (or last) display_response call
    answer,     \* local `answer` (OpenAIManager) / `response` (OllamaManager)
    net,        \* network operations issued by the running (or last) call, in order
    inputs,     \* what the network gave back to the running (or last) call, in order
    excs,       \* classes of the exceptions raised inside the running (or last) call
    shown,      \* texts passed to display(Markdown(.)) by the running (or last) call
    ret,        \* how the last call ended: "-" (none ended yet / running), "None", "raised"
    first       \* record of the first call that ended on this object

vars == <<environ, cls, args, self, pc, calls, question, answer, net, inputs,
          excs, shown, ret, first>>

--------------------------------------------------------------------------
\* Optional[str]: Python None, or a str.
None == [isNone |-> TRUE, s |-> <<>>]

Some(s) == [isNone |-> FALSE, s |-> s]

\* Truth value of an Optional[str]: None and "" are falsy.
Truthy(x) == ~x.isNone /\ x.s # <<>>

\* system_prompt of OpenAIManager.display_response
system_prompt ==
    <<"Y", "o", "u", " ", "a", "r", "e", " ", "a", " ", "h", "e",
      "l", "p", "f", "u", "l", " ", "t", "e", "c", "h", "n", "i",
      "c", "a", "l", " ", "a", "s", "s", "i", "s", "t", "a", "n",
      "t", ".", " ", "P", "r", "o", "v", "i", "d", "e", " ", "c",
      "l", "e", "a", "r", ",", " ">> \o
    <<"d", "e", "t", "a", "i", "l", "e", "d", " ", "e", "x", "p",
      "l", "a", "n", "a", "t", "i", "o", "n", "s", " ", "f", "o",
      "r", " ", "t", "e", "c", "h", "n", "i", "c", "a", "l", " ",
      "q", "u", "e", "s", "t", "i", "o", "n", "s", ".">>

\* OllamaManager.SYSTEM_PROMPT
SYSTEM_PROMPT ==
    <<"Y", "o", "u", " ", "a", "r", "e", " ", "a", " ", "h", "e",
      "l", "p", "f", "u", "l", " ", "t", "e", "c", "h", "n", "i",
      "c", "a", "l", " ", "a", "s", "s", "i", "s", "t", "a", "n",
      "t", ".", " ", "P", "r", "o", "v", "i", "d", "e", " ", "c",
      "l", "e", "a", "r", ",", " ">> \o
    <<"d", "e", "t", "a", "i", "l", "e", "d", " ", "e", "x", "p",
      "l", "a", "n", "a", "t", "i", "o", "n", "s", " ", "f", "o",
      "r", " ", "t", "e", "c", "h", "n", "i", "c", "a", "l", " ",
      "q", "u", "e", "s", "t", "i", "o", "n", "s", ".">>

\* f"Error: {str(e)}"
ErrorText(msg) == <<"E", "r", "r", "o", "r", ":", " ">> \o msg

\* The string rendered when _check_ollama_connection() is False.
UnreachableText ==
    <<"E", "r", "r", "o", "r", ":", " ", "C", "a", "n", "n", "o",
      "t", " ", "c", "o", "n", "n", "e", "c", "t", " ", "t", "o",
      " ", "O", "l", "l", "a", "m", "a", ".", " ", "M", "a", "k",
      "e", " ", "s", "u", "r", "e", " ", "O", "l", "l", "a", "m",
      "a", " ", "i", "s", " ", "r", "u", "n", "n", "i", "n", "g",
      " ">> \o
    <<"o", "n", " ", "l", "o", "c", "a", "l", "h", "o", "s", "t",
      ":", "1", "1", "4", "3", "4">>

\* str(IndexError) of choices[0] on an empty list
IndexErrorText == <<"l", "i", "s", "t", " ", "i", "n", "d", "e", "x", " ", "o",
                    "u", "t", " ", "o", "f", " ", "r", "a", "n", "g", "e">>

\* str(AttributeError) of result.get on a decoded body that is not a dict
AttributeErrorText == <<"'", "l", "i", "s", "t", "'", " ", "o", "b", "j", "e", "c",
                        "t", " ", "h", "a", "s", " ", "n", "o", " ", "a", "t", "t",
                        "r", "i", "b", "u", "t", "e", " ", "'", "g", "e", "t", "'">>

\* timeout= of the probe GET and of the generate POST
ProbeTimeout == 5

GenerateTimeout == 30

--------------------------------------------------------------------------
\* Inputs.
Questions == {<<"h", "i">>, <<"W", "h", "a", "t", " ", "i", "s", " ", "6", "*", "7", "?">>}

ExcMsgs == {<<>>, <<"b", "o", "o", "m">>}

OpenAIModels == {<<"g", "p", "t", "-", "4", "o", "-", "m", "i", "n", "i">>}

OllamaModels == {<<"l", "l", "a", "m", "a", "3", ".", "2">>}

ApiKeyArgs == {None, Some(<<>>), Some(<<"s", "k", "-", "a", "r", "g">>)}

EnvStates == {None, Some(<<>>), Some(<<"s", "k", "-", "e", "n", "v">>)}

BaseUrls ==
    {<<"h", "t", "t", "p", ":", "/", "/", "l", "o", "c", "a", "l",
       "h", "o", "s", "t", ":", "1", "1", "4", "3", "4">>,
     <<"h", "t", "t", "p", ":", "/", "/", "l", "o", "c", "a", "l",
       "h", "o", "s", "t", ":", "1", "1", "4", "3", "4", "/">>,
     <<"h", "t", "t", "p", ":", "/", "/", "g", "p", "u", ":", "8",
       "0", "8", "0", "/", "/">>}

\* Subclasses of requests.exceptions.RequestException
RequestExceptions == {"ConnectionError", "Timeout", "HTTPError", "JSONDecodeError"}

\* What requests.get(f"{api_url}/tags", timeout=5) can do: return a response
\* with a status code, or raise.  OSError stands for the exceptions that are
\* not RequestException (requests raises it for an unusable CA bundle).
ProbeOutcomes ==
    {[kind |-> "status", status |-> s, exc |-> "-"] : s \in {200, 204, 404}}
    \cup {[kind |-> "raise", status |-> 0, exc |-> e] :
             e \in {"ConnectionError", "Timeout", "OSError"}}

NoFields == [k \in {} |-> <<>>]

\* Decoded JSON bodies: api_response.json() raises ("invalid"), or gives a
\* list ("array"), or a dict with the given fields ("object").
Bodies ==
    {[json |-> "invalid", fields |-> NoFields], [json |-> "array", fields |-> NoFields],
     [json |-> "object", fields |-> NoFields],
     [json |-> "object", fields |-> [k \in {"error"} |-> <<"n", "o", " ", "m", "o", "d", "e", "l">>]]}
    \cup {[json |-> "object", fields |-> [k \in {"response"} |-> x]] :
             x \in {<<"X">>, <<>>, <<"E", "r", "r", "o", "r", ":", " ", "X">>}}
    \cup {[json |-> "object", fields |-> [k \in {"response", "done"} |-> <<"4", "2">>]]}

\* What requests.post(f"{api_url}/generate", ...) and the two calls on its
\* result can do.  msg is str(e) of the exception raised, where one is.
GenerateOutcomes ==
    {[kind |-> "raise", exc |-> e, msg |-> m, status |-> 0,
      body |-> [json |-> "invalid", fields |-> NoFields]] :
         e \in {"ConnectionError", "Timeout"}, m \in ExcMsgs}
    \cup {[kind |-> "response", exc |-> "-", msg |-> m, status |-> s,
           body |-> [json |-> "object", fields |-> [k \in {"error"} |-> <<"n", "o", " ", "m", "o", "d", "e", "l">>]]] :
             s \in {404, 500}, m \in ExcMsgs}
    \cup {[kind |-> "response", exc |-> "-", msg |-> m, status |-> s,
           body |-> [json |-> "invalid", fields |-> NoFields]] :
             s \in {200, 201, 302}, m \in ExcMsgs}
    \cup {[kind |-> "response", exc |-> "-", msg |-> <<>>, status |-> s, body |-> b] :
             s \in {200, 201, 302}, b \in {x \in Bodies : x.json # "invalid"}}

\* What client.chat.completions.create can do: raise, or return a response
\* whose choices carry the given message contents.
CreateOutcomes ==
    {[kind |-> "raise", exc |-> e, msg |-> m, choices |-> <<>>] :
         e \in {"APIConnectionError", "RateLimitError"}, m \in ExcMsgs}
    \cup {[kind |-> "response", exc |-> "-", msg |-> <<>>, choices |-> c] :
             c \in {<<>>, << <<"4", "2">> >>, << <<"4", "2">>, <<"7">> >>,
                    << <<"E", "r", "r", "o", "r", ":", " ", "X">> >>, << <<>> >>}}

--------------------------------------------------------------------------
\* OpenAIManager.__init__

\* Mutant of ResolveKey: the environment variable is consulted first.
ResolveKey_envFirst(api_key, env) == IF Truthy(env) THEN env ELSE api_key

\* api_key or os.getenv("OPENAI_API_KEY")
ResolveKey(api_key, env) == IF Truthy(api_key) THEN api_key ELSE env

\* Mutant of KeyMissing: only the empty string is rejected (`== ""`).
KeyMissing_emptyOnly(k) == ~k.isNone /\ k.s = <<>>

\* not self.api_key
KeyMissing(k) == ~Truthy(k)

\* OpenAI(api_key=self.api_key): the transport handle
OpenAI(k) == [api_key |-> k.s]

NoCall == [set |-> FALSE, question |-> <<>>, inputs |-> <<>>, net |-> <<>>,
           shown |-> <<>>, ret |-> "-"]

Init ==
    /\ environ \in EnvStates
    /\ cls = "-"
    /\ args = [model |-> <<>>]
    /\ self = [model |-> <<>>]
    /\ pc = "new"
    /\ calls = 0
    /\ question = <<>>
    /\ answer = <<>>
    /\ net = <<>>
    /\ inputs = <<>>
    /\ excs = <<>>
    /\ shown = <<>>
    /\ ret = "-"
    /\ first = NoCall

OpenAIManager_init ==
    /\ pc = "new"
    /\ \E model \in OpenAIModels, api_key \in ApiKeyArgs :
          LET k == ResolveKey(api_key, environ) IN
          /\ cls' = "OpenAIManager"
          /\ args' = [model |-> model, api_key |-> api_key]
          /\ IF KeyMissing(k)
                THEN /\ self' = [model |-> model, api_key |-> k]
                     /\ pc' = "ctor_raised"
                     /\ excs' = <<"ValueError">>
                ELSE /\ self' = [model |-> model, api_key |-> k, client |-> OpenAI(k)]
                     /\ pc' = "ready"
                     /\ excs' = excs
    /\ UNCHANGED <<environ, calls, question, answer, net, inputs, shown, ret, first>>

\* OpenAIManager.display_response

\* Mutant of Messages: the conversation is kept and sent again.
Messages_history(q) ==
    <<[role |-> "system", content |-> system_prompt]>>
    \o (IF first.set THEN <<[role |-> "user", content |-> first.question]>> ELSE <<>>)
    \o <<[role |-> "user", content |-> q]>>

\* messages=[{"role": "system", ...}, {"role": "user", ...}]
Messages(q) ==
    <<[role |-> "system", content |-> system_prompt],
      [role |-> "user", content |-> q]>>

\* the arguments of self.client.chat.completions.create
CreateRequest(q) ==
    [op |-> "create", api_key |-> self.client.api_key, model |-> self.model,
     messages |-> Messages(q), stream |-> FALSE]

\* Mutant of FirstChoice: choices[-1]
FirstChoice_last(choices) == choices[Len(choices)]

\* response.choices[0].message.content, for a non-empty choices
FirstChoice(choices) == choices[1]

\* the try/except around create: the value of `answer` after it
CreateAnswer(out) ==
    IF out.kind = "raise" THEN ErrorText(out.msg)
    ELSE IF out.choices = <<>> THEN ErrorText(IndexErrorText)
    ELSE FirstChoice(out.choices)

\* the exception raised inside the try block, if any
CreateRaises(out) ==
    IF out.kind = "raise" THEN <<out.exc>>
    ELSE IF out.choices = <<>> THEN <<"IndexError">>
    ELSE <<>>

\* entry of display_response(question), either class
Call(c, next) ==
    /\ pc = "ready"
    /\ cls = c
    /\ calls < MaxCalls
    /\ \E q \in Questions : question' = q
    /\ calls' = calls + 1
    /\ pc' = next
    /\ answer' = <<>>
    /\ net' = <<>>
    /\ inputs' = <<>>
    /\ excs' = <<>>
    /\ shown' = <<>>
    /\ ret' = "-"
    /\ UNCHANGED <<environ, cls, args, self, first>>

OpenAIAsk == Call("OpenAIManager", "create")

OpenAICreate ==
    /\ pc = "create"
    /\ \E out \in CreateOutcomes :
          /\ net' = Append(net, CreateRequest(question))
          /\ inputs' = Append(inputs, out)
          /\ excs' = excs \o CreateRaises(out)
          /\ answer' = CreateAnswer(out)
    /\ pc' = "display"
    /\ UNCHANGED <<environ, cls, args, self, calls, question, shown, ret, first>>

\* The end of a call: ret is "None" (returned None) or "raised".
Ended(r, sh, n, i) ==
    IF first.set THEN first
    ELSE [set |-> TRUE, question |-> question, inputs |-> i, net |-> n,
          shown |-> sh, ret |-> r]

\* display(Markdown(answer)); return None
Display ==
    /\ pc = "display"
    /\ shown' = Append(shown, answer)
    /\ ret' = "None"
    /\ pc' = "ready"
    /\ first' = Ended("None", Append(shown, answer), net, inputs)
    /\ UNCHANGED <<environ, cls, args, self, calls, question, answer, net, inputs, excs>>

--------------------------------------------------------------------------
\* OllamaManager

\* str.rstrip(ch)
RECURSIVE rstrip(_, _)
rstrip(s, ch) ==
    IF s # <<>> /\ s[Len(s)] = ch THEN rstrip(SubSeq(s, 1, Len(s) - 1), ch) ELSE s

OllamaManager_init ==
    /\ pc = "new"
    /\ \E model \in OllamaModels, base_url \in BaseUrls :
          /\ args' = [model |-> model, base_url |-> base_url]
          /\ self' = [model |-> model, base_url |-> rstrip(base_url, "/"),
                      api_url |-> rstrip(base_url, "/") \o <<"/", "a", "p", "i">>]
    /\ cls' = "OllamaManager"
    /\ pc' = "ready"
    /\ UNCHANGED <<environ, calls, question, answer, net, inputs, excs, shown, ret, first>>

\* requests.get(f"{self.api_url}/tags", timeout=5)
ProbeRequest ==
    [op |-> "GET", url |-> self.api_url \o <<"/", "t", "a", "g", "s">>, timeout |-> ProbeTimeout]

\* except requests.exceptions.RequestException
ProbeCatches(exc) == exc \in RequestExceptions

\* Mutant of CheckOllamaConnection: any status below 400 counts as alive.
CheckOllamaConnection_below400(out) == out.kind = "status" /\ out.status < 400

\* the value _check_ollama_connection returns, when it returns
CheckOllamaConnection(out) == out.kind = "status" /\ out.status = 200

\* f"{self.SYSTEM_PROMPT}\n\nQuestion: {question}"
Prompt(q) == SYSTEM_PROMPT \o <<"\n", "\n", "Q", "u", "e", "s", "t", "i", "o", "n", ":", " ">> \o q

\* requests.post(f"{self.api_url}/generate", json=payload, timeout=30)
GenerateRequest(q) ==
    [op |-> "POST", url |-> self.api_url \o <<"/", "g", "e", "n", "e", "r", "a", "t", "e">>,
     json |-> [model |-> self.model, prompt |-> Prompt(q), stream |-> FALSE],
     timeout |-> GenerateTimeout]

\* api_response.raise_for_status() raises HTTPError
RaiseForStatus(status) == 400 <= status /\ status < 600

\* Mutant of ResultGet: result.get("response") or "No response received"
ResultGet_or(fields) ==
    IF "response" \in DOMAIN fields /\ fields["response"] # <<>> THEN fields["response"]
    ELSE <<"N", "o", " ", "r", "e", "s", "p", "o", "n", "s", "e", " ",
           "r", "e", "c", "e", "i", "v", "e", "d">>

\* Mutant of ResultGet: result.get("response", "")
ResultGet_emptyDefault(fields) ==
    IF "response" \in DOMAIN fields THEN fields["response"] ELSE <<>>

\* result.get("response", "No response received") on a dict
ResultGet(fields) ==
    IF "response" \in DOMAIN fields THEN fields["response"]
    ELSE <<"N", "o", " ", "r", "e", "s", "p", "o", "n", "s", "e", " ",
           "r", "e", "c", "e", "i", "v", "e", "d">>

\* the exception raised inside the try block of the else branch, if any
GenerateRaises(out) ==
    IF out.kind = "raise" THEN <<out.exc>>
    ELSE IF RaiseForStatus(out.status) THEN <<"HTTPError">>
    ELSE IF out.body.json = "invalid" THEN <<"JSONDecodeError">>
    ELSE IF out.body.json # "object" THEN <<"AttributeError">>
    ELSE <<>>

\* the try/except of the else branch: the value of `response` after it
GenerateAnswer(out) ==
    IF out.kind = "raise" THEN ErrorText(out.msg)
    ELSE IF RaiseForStatus(out.status) THEN ErrorText(out.msg)
    ELSE IF out.body.json = "invalid" THEN ErrorText(out.msg)
    ELSE IF out.body.json # "object" THEN ErrorText(AttributeErrorText)
    ELSE ResultGet(out.body.fields)

OllamaAsk == Call("OllamaManager", "probe")

\* Mutant of OllamaProbe: a probe that did not find the daemon is tried once more.
OllamaProbe_retry ==
    /\ pc = "probe"
    /\ \E out \in ProbeOutcomes :
          /\ net' = Append(net, ProbeRequest)
          /\ inputs' = Append(inputs, out)
          /\ excs' = IF out.kind = "raise" THEN Append(excs, out.exc) ELSE excs
          /\ IF out.kind = "raise" /\ ~ProbeCatches(out.exc)
                THEN /\ pc' = "ready"
                     /\ ret' = "raised"
                     /\ answer' = answer
                     /\ first' = Ended("raised", shown, Append(net, ProbeRequest),
                                       Append(inputs, out))
                ELSE /\ ret' = ret
                     /\ first' = first
                     /\ IF CheckOllamaConnection(out)
                           THEN pc' = "generate" /\ answer' = answer
                           ELSE IF net = <<>>
                                   THEN pc' = "probe" /\ answer' = answer
                                   ELSE pc' = "display" /\ answer' = UnreachableText
    /\ UNCHANGED <<environ, cls, args, self, calls, question, shown>>

\* self._check_ollama_connection() and the branch on its value
OllamaProbe ==
    /\ pc = "probe"
    /\ \E out \in ProbeOutcomes :
          /\ net' = Append(net, ProbeRequest)
          /\ inputs' = Append(inputs, out)
          /\ excs' = IF out.kind = "raise" THEN Append(excs, out.exc) ELSE excs
          /\ IF out.kind = "raise" /\ ~ProbeCatches(out.exc)
                THEN \* the exception leaves display_response
                     /\ pc' = "ready"
                     /\ ret' = "raised"
                     /\ answer' = answer
                     /\ first' = Ended("raised", shown, Append(net, ProbeRequest),
                                       Append(inputs, out))
                ELSE /\ ret' = ret
                     /\ first' = first
                     /\ IF CheckOllamaConnection(out)
                           THEN pc' = "generate" /\ answer' = answer
                           ELSE pc' = "display" /\ answer' = UnreachableText
    /\ UNCHANGED <<environ, cls, args, self, calls, question, shown>>

OllamaGenerate ==
    /\ pc = "generate"
    /\ \E out \in GenerateOutcomes :
          /\ net' = Append(net, GenerateRequest(question))
          /\ inputs' = Append(inputs, out)
          /\ excs' = excs \o GenerateRaises(out)
          /\ answer' = GenerateAnswer(out)
    /\ pc' = "display"
    /\ UNCHANGED <<environ, cls, args, self, calls, question, shown, ret, first>>

Next ==
    \/ OpenAIManager_init
    \/ OpenAIAsk
    \/ OpenAICreate
    \/ OllamaManager_init
    \/ OllamaAsk
    \/ OllamaProbe
    \/ OllamaGenerate
    \/ Display

Spec == Init /\ [][Next]_vars

--------------------------------------------------------------------------
\* Properties.

\* s.startswith(p)
StartsWith(s, p) == Len(s) >= Len(p) /\ SubSeq(s, 1, Len(p)) = p

\* a display_response call has ended and no other is running
Done == pc = "ready" /\ calls > 0

\* the probe of the running (or last) OllamaManager call answered 200
ProbeOk == Len(inputs) >= 1 /\ inputs[1].kind = "status" /\ inputs[1].status = 200

\* the generate POST of the last call answered a 2xx status with a JSON object
GenerateGaveObject ==
    /\ cls = "OllamaManager"
    /\ Done
    /\ ProbeOk
    /\ Len(inputs) = 2
    /\ inputs[2].kind = "response"
    /\ 200 <= inputs[2].status /\ inputs[2].status < 300
    /\ inputs[2].body.json = "object"

\* C1: whenever an exception was raised inside a display_response call of
\* either class, the call still returns None and the one text it displayed
\* begins with "Error: ".
C1_ExceptionsBecomeErrorText ==
    (Done /\ excs # <<>>) =>
        /\ ret = "None"
        /\ Len(shown) = 1
        /\ StartsWith(shown[1], <<"E", "r", "r", "o", "r", ":", " ">>)

\* C2: when the probe GET of an OllamaManager call answers a status other
\* than 200, or fails with a connection or timeout error, no POST is issued
\* in that call and the call displays exactly the fixed "Cannot connect"
\* sentence, whatever base_url and question are.
C2_FailedProbeNoGenerate ==
    (/\ cls = "OllamaManager"
     /\ Len(inputs) >= 1
     /\ \/ inputs[1].kind = "status" /\ inputs[1].status # 200
        \/ inputs[1].kind = "raise" /\ inputs[1].exc \in {"ConnectionError", "Timeout"})
    =>
        /\ pc # "generate"
        /\ \A i \in DOMAIN net : net[i].op # "POST"
        /\ Done =>
              /\ ret = "None"
              /\ shown = <<<<"E", "r", "r", "o", "r", ":", " ", "C", "a", "n", "n", "o",
                             "t", " ", "c", "o", "n", "n", "e", "c", "t", " ", "t", "o",
                             " ", "O", "l", "l", "a", "m", "a", ".", " ", "M", "a", "k",
                             "e", " ", "s", "u", "r", "e", " ", "O", "l", "l", "a", "m",
                             "a", " ", "i", "s", " ", "r", "u", "n", "n", "i", "n", "g",
                             " ", "o", "n", " ", "l", "o", "c", "a", "l", "h", "o", "s",
                             "t", ":", "1", "1", "4", "3", "4">>>>

C2_Witness ==
    /\ cls = "OllamaManager"
    /\ Done
    /\ inputs = <<[kind |-> "raise", status |-> 0, exc |-> "Timeout"]>>
    /\ self.base_url = <<"h", "t", "t", "p", ":", "/", "/", "g", "p", "u", ":", "8",
                         "0", "8", "0">>
    /\ question = <<"h", "i">>
    /\ Len(shown) = 1

\* C3: OpenAIManager() with api_key=None and OPENAI_API_KEY unset raises
\* ValueError, and the object gets no client attribute.
C3_NoKeyRaises ==
    (cls = "OpenAIManager" /\ args.api_key = None /\ environ = None) =>
        /\ pc = "ctor_raised"
        /\ excs = <<"ValueError">>
        /\ "client" \notin DOMAIN self

C3_Witness ==
    /\ cls = "OpenAIManager"
    /\ args.api_key = None
    /\ environ = None
    /\ pc = "ctor_raised"

\* C4 as stated: OpenAIManager(api_key=k) succeeds for every string k,
\* whatever OPENAI_API_KEY is, and k is the stored credential.
C4_AnyExplicitKeyWins ==
    (cls = "OpenAIManager" /\ ~args.api_key.isNone) =>
        /\ pc # "ctor_raised"
        /\ self.api_key = args.api_key
        /\ "client" \in DOMAIN self
        /\ self.client.api_key = args.api_key.s

\* C4 amended: OpenAIManager(api_key=k) succeeds for every non-empty
\* string k, whatever OPENAI_API_KEY is (unset, empty or set), and k is the
\* credential stored and handed to the transport.
C4_NonEmptyExplicitKeyWins ==
    (cls = "OpenAIManager" /\ ~args.api_key.isNone /\ args.api_key.s # <<>>) =>
        /\ pc # "ctor_raised"
        /\ self.api_key = args.api_key
        /\ "client" \in DOMAIN self
        /\ self.client.api_key = args.api_key.s

C4_Witness ==
    /\ cls = "OpenAIManager"
    /\ args.api_key = Some(<<"s", "k", "-", "a", "r", "g">>)
    /\ environ = Some(<<"s", "k", "-", "e", "n", "v">>)
    /\ pc = "ready"
    /\ self.client.api_key = <<"s", "k", "-", "a", "r", "g">>

\* C5: when the probe answered 200 and the generate POST answered a 2xx
\* status with a JSON object holding a "response" field, the call displays
\* exactly that field's value and nothing else.
C5_ResponseFieldShownVerbatim ==
    (GenerateGaveObject /\ "response" \in DOMAIN inputs[2].body.fields) =>
        /\ shown = <<inputs[2].body.fields["response"]>>
        /\ ret = "None"

C5_Witness ==
    /\ GenerateGaveObject
    /\ "response" \in DOMAIN inputs[2].body.fields
    /\ inputs[2].body.fields["response"] = <<"X">>
    /\ shown = <<<<"X">>>>

C7_FirstChoiceShown ==
    (/\ cls = "OpenAIManager"
     /\ Len(inputs) = 1
     /\ inputs[1].kind = "response"
     /\ inputs[1].choices # <<>>)
    =>
        /\ Len(net) = 1
        /\ net[1].messages =
              <<[role |-> "system",
                 content |-> <<"Y", "o", "u", " ", "a", "r", "e", " ", "a", " ", "h", "e",
                               "l", "p", "f", "u", "l", " ", "t", "e", "c", "h", "n", "i",
                               "c", "a", "l", " ", "a", "s", "s", "i", "s", "t", "a", "n",
                               "t", ".", " ", "P", "r", "o", "v", "i", "d", "e", " ", "c",
                               "l", "e", "a", "r", ",", " ", "d", "e", "t", "a", "i", "l",
                               "e", "d", " ", "e", "x", "p", "l", "a", "n", "a", "t", "i",
                               "o", "n", "s", " ", "f", "o", "r", " ", "t", "e", "c", "h",
                               "n", "i", "c", "a", "l", " ", "q", "u", "e", "s", "t", "i",
                               "o", "n", "s", ".">>],
                [role |-> "user", content |-> question]>>
        /\ Done => shown = <<inputs[1].choices[1]>> /\ ret = "None"

C7_Witness ==
    /\ cls = "OpenAIManager"
    /\ Done
    /\ question = <<"W", "h", "a", "t", " ", "i", "s", " ", "6", "*", "7", "?">>
    /\ Len(inputs) = 1
    /\ inputs[1].choices = <<<<"4", "2">>, <<"7">>>>
    /\ shown = <<<<"4", "2">>>>

\* C8: no step of display_response changes the object's attributes, and a
\* later call given the same question and the same server answers as the
\* object's first call issues the same requests, displays the same text and
\* ends the same way.
C8_NoStateAccumulated ==
    /\ [][pc \notin {"new", "ctor_raised"} => self' = self]_vars
    /\ [](Done /\ question = first.question /\ inputs = first.inputs =>
             /\ net = first.net
             /\ shown = first.shown
             /\ ret = first.ret)

C8_Witness ==
    /\ cls = "OpenAIManager"
    /\ Done
    /\ calls >= 2
    /\ question = first.question
    /\ inputs = first.inputs
    /\ Len(shown) = 1

\* C9: within one call nothing is retried and the operations are ordered:
\* OllamaManager issues one probe GET and then at most one generate POST,
\* the POST only after the probe answered 200; OpenAIManager issues one
\* completion request.
C9_NoRetryOrdered ==
    /\ cls = "OllamaManager" =>
          /\ Len(net) <= 2
          /\ (pc \in {"generate", "display"} \/ Done) => Len(net) >= 1
          /\ Len(net) >= 1 => net[1].op = "GET"
          /\ Len(net) = 2 => net[2].op = "POST" /\ ProbeOk
          /\ pc = "generate" => Len(net) = 1
    /\ cls = "OpenAIManager" =>
          /\ Len(net) <= 1
          /\ (pc = "display" \/ Done) => Len(net) = 1 /\ net[1].op = "create"

C9_Witness ==
    /\ cls = "OllamaManager"
    /\ Done
    /\ Len(net) = 2
    /\ net[2].op = "POST"

\* C10: every display_response call of either class ends by displaying
\* exactly one text, after its network operations, and returning None.
C10_DisplayedOnceReturnsNone ==
    /\ Done => ret = "None" /\ Len(shown) = 1
    /\ pc \in {"create", "probe", "generate", "display"} => shown = <<>>

====
